---- MODULE Spec2Model ----
(***************************************************************************)
(* Model of the visa-application backend: the application, document and    *)
(* user handlers of backend/app/api/v1/endpoints over the Firestore        *)
(* collections and the storage bucket.                                     *)
(*                                                                         *)
(* Every handler is a sequence of remote calls (Firestore get / set /      *)
(* update / delete, bucket upload / exists / delete).  One action of the   *)
(* model is the local code of a handler up to and including one remote     *)
(* call; handlers of different requests interleave between remote calls    *)
(* (the service runs several workers against one remote store).  Every     *)
(* remote call either returns or raises an exception carrying a text.      *)
(***************************************************************************)
EXTENDS Integers, Sequences, FiniteSets, TLC

\* ------------------------------------------------------------------ bounds
NumUsers == 2
NumUuids == 1
NumSteps == 2
NumReq == 2
MaxTime == 1
MaxTagLen == 4
NumStatDocs == 2
NumListDocs == 3

Users == 1..NumUsers
\* The values uuid.uuid4() can return; app_id and doc_id are both drawn from it.
Uuids == 1..NumUuids
StepIds == 1..NumSteps
\* The workers of the concurrent deployment, and of the single-worker one.
Reqs == 1..NumReq
Single == {1}

\* Python's None for an optional string or identifier.
None == "None"

\* ------------------------------------------------------- program constants
\* documents.py:45   10 * 1024 * 1024
MAX_FILE_SIZE == 10 * 1024 * 1024

\* documents.py:109   limit: int = Query(50, ge=1, le=100)
DEFAULT_LIMIT == 50
MIN_LIMIT == 1
MAX_LIMIT == 100
\* documents.py:110   offset: int = Query(0, ge=0)
DEFAULT_OFFSET == 0
MIN_OFFSET == 0

DRAFT == "DRAFT"
ApplicationStatus == {"DRAFT", "SUBMITTED", "UNDER_REVIEW", "APPROVED", "REJECTED"}
PENDING_VALIDATION == "PENDING_VALIDATION"
DocumentStatus == {"PENDING_VALIDATION", "APPROVED", "REJECTED"}

\* ------------------------------------------------------------ environment
\* Texts of the exceptions a remote call can raise.
ErrTexts == {"503 unavailable", "504 deadline exceeded"}
OK == "ok"
Outcomes == {OK} \cup ErrTexts

\* Request payloads.  The framework parses the body into the declared model;
\* the body itself may carry any further keys (here: status, user_id).
AppBodies ==
  [application_name : {"trip"}, country_code : {"DE"},
   status : {"DRAFT", "APPROVED"}, user_id : Users]
AppUpdateStatuses == {None, "SUBMITTED"}
\* ApplicationStepUpdate bodies: document_id only, status only, both.
StatusOnly == [document_id |-> None, status |-> "completed"]
StepUpdates ==
  {[document_id |-> "d1", status |-> None],
   StatusOnly,
   [document_id |-> "d1", status |-> "completed"]}
FileSizes == {MAX_FILE_SIZE, MAX_FILE_SIZE + 1}
Files ==
  [filename : {"", "a.pdf"}, size : FileSizes, content_type : {None, "application/pdf"}]

\* A str is the sequence of its characters; an Optional[str] query parameter
\* is <<>> when absent and <<s>> when given as s.
Absent == <<>>
Given(s) == <<s>>
\* The query parameters of an upload next to the file.
PlainForm ==
  [document_type |-> "passport", document_title |-> "scan", notes |-> Absent,
   tags |-> Absent]
\* The tags strings: every string of at most MaxTagLen characters, and the
\* documented example "a, b ,c".
TagChars == {"a", "b", "c", " ", ","}
ExampleTags == <<"a", ",", " ", "b", " ", ",", "c">>
TagStrings == (UNION {[1..n -> TagChars] : n \in 0..MaxTagLen}) \cup {ExampleTags}
TagForms ==
  {PlainForm} \cup {[PlainForm EXCEPT !.tags = Given(s)] : s \in TagStrings}

VARIABLES
  APPLICATION,     \* collection 'APPLICATION': app_id -> record
  documents,       \* collection "documents": doc_id -> record
  user_documents,  \* collection "user_documents": doc_id -> record
  USER,            \* collection 'USER': uid -> record
  bucket,          \* storage bucket: path -> blob
  issued,          \* uuid4 values handed out so far, with the caller they were made for
  now,             \* datetime.utcnow()
  req              \* the requests in flight and their responses

vars == <<APPLICATION, documents, user_documents, USER, bucket, issued, now, req>>

\* --------------------------------------------------------- store adapters
\* DocumentReference.set: full overwrite, creating the record when absent.
Put(table, id, rec) ==
  [k \in (DOMAIN table) \cup {id} |-> IF k = id THEN rec ELSE table[k]]

\* DocumentReference.delete: no-op when the record is absent.
Remove(table, id) == [k \in (DOMAIN table) \ {id} |-> table[k]]

Exists(table, id) == id \in DOMAIN table

\* f"users/{uid}/documents/{doc_id}{ext}"
Ext(filename) == IF filename = "a.pdf" THEN ".pdf" ELSE ""
StoragePath(uid, doc_id, filename) == <<"users", uid, "documents", doc_id, Ext(filename)>>

\* ---------------------------------------------------------------- requests
Idle ==
  [op |-> "idle", pc |-> "idle", uid |-> 0, id |-> 0,
   step_id |-> 0, document_id |-> None, status |-> None,
   local |-> <<>>, blob |-> "none", wrote |-> FALSE, fault |-> FALSE,
   code |-> 0, detail |-> <<>>, resp |-> <<>>]

Begin(op, uid, id) == [Idle EXCEPT !.op = op, !.uid = uid, !.id = id]

\* Mutant: the HTTPException falls into the handler's generic except clause.
RaiseCaughtAsInternal(q, code, detail) ==
  [q EXCEPT !.pc = "done", !.code = 500, !.detail = detail, !.local = <<>>,
            !.document_id = None, !.status = None]

\* raise HTTPException(status_code=code, detail=detail).  The request body is
\* dropped with the handler's frame; what identifies the request is kept.
Raise(q, code, detail) ==
  [q EXCEPT !.pc = "done", !.code = code, !.detail = detail, !.local = <<>>,
            !.document_id = None, !.status = None]

\* The handler's except clause: Internal (500).  fault records that the
\* exception came from a failing remote call.
Fail(q, detail, e) == [Raise(q, 500, detail) EXCEPT !.fault = (e \in ErrTexts)]

\* return <response>.  resp holds the returned record of a create; the record
\* an update returns is the one it wrote or read back and is not kept.
Return(q, code, resp) ==
  [q EXCEPT !.pc = "done", !.code = code, !.resp = resp, !.local = <<>>]

Running(r, op, pc) == req[r].op = op /\ req[r].pc = pc

Stores ==
  /\ APPLICATION = <<>>
  /\ documents = <<>>
  /\ user_documents = <<>>
  /\ USER = [u \in Users |-> [uid |-> u, name |-> "Ada", updated_at |-> 0]]
  /\ bucket = <<>>
  /\ issued = <<>>
  /\ now = 0

\* NumReq workers.
Init == Stores /\ req = [r \in Reqs |-> Idle]

\* One worker.
InitOne == Stores /\ req = [r \in Single |-> Idle]

\* ---------------------------------------------------------------- clock
Tick ==
  /\ now < MaxTime
  /\ now' = now + 1
  /\ UNCHANGED <<APPLICATION, documents, user_documents, USER, bucket, issued, req>>

\* The response has been delivered; the worker takes the next request.
Reply(r) ==
  /\ req[r].pc = "done"
  /\ req' = [req EXCEPT ![r] = Idle]
  /\ UNCHANGED <<APPLICATION, documents, user_documents, USER, bucket, issued, now>>

\* DocumentReference.update raises NotFound when the record is absent.
NoDocumentText == "404 No document to update"
UpdateOutcome(table, id, out) ==
  IF out # OK THEN out ELSE IF Exists(table, id) THEN OK ELSE NoDocumentText

\* ------------------------------------------------------ application handler
\* applications.py:44-48, 116-120, 175-179: detail=f"Failed to ...: {str(e)}"
AppErrorDetail(prefix, e) == <<prefix, e>>

\* Mutant: the owner is taken from the request body.
NewApplicationOwnerFromBody(app_id, uid, body, t) ==
  [app_id |-> app_id, user_id |-> body.user_id,
   application_name |-> body.application_name, country_code |-> body.country_code,
   status |-> DRAFT, application_steps |-> <<>>,
   created_at |-> t, updated_at |-> t]

\* Mutant: the status is taken from the request body.
NewApplicationStatusFromBody(app_id, uid, body, t) ==
  [app_id |-> app_id, user_id |-> uid,
   application_name |-> body.application_name, country_code |-> body.country_code,
   status |-> body.status, application_steps |-> <<>>,
   created_at |-> t, updated_at |-> t]

\* applications.py:27-36
NewApplication(app_id, uid, body, t) ==
  [app_id |-> app_id, user_id |-> uid,
   application_name |-> body.application_name, country_code |-> body.country_code,
   status |-> DRAFT, application_steps |-> <<>>,
   created_at |-> t, updated_at |-> t]

CreateApplication(r) ==
  /\ req[r].pc = "idle"
  /\ \E uid \in Users, body \in AppBodies, out \in Outcomes :
       \E app_id \in Uuids \ DOMAIN issued :
         LET q == Begin("create_application", uid, app_id)
             application_doc == NewApplication(app_id, uid, body, now)
         IN /\ issued' = Put(issued, app_id, uid)
            /\ IF out = OK
                 THEN /\ APPLICATION' = Put(APPLICATION, app_id, application_doc)
                      /\ req' = [req EXCEPT ![r] =
                                   Return([q EXCEPT !.wrote = TRUE], 201, <<application_doc>>)]
                 ELSE /\ UNCHANGED APPLICATION
                      /\ req' = [req EXCEPT ![r] =
                                   Fail(q, AppErrorDetail("Failed to create application: ", out), out)]
  /\ UNCHANGED <<documents, user_documents, USER, bucket, now>>

\* The step list of an application is written by the planning service, which
\* stores ApplicationStep entries with step identifiers unique in the list.
SeedSteps ==
  [i \in StepIds |->
     [step_id |-> i, title |-> "step", document_id |-> None, status |-> "pending"]]

PopulateSteps ==
  /\ \E app_id \in DOMAIN APPLICATION :
       /\ APPLICATION[app_id].application_steps = <<>>
       /\ APPLICATION' = [APPLICATION EXCEPT ![app_id].application_steps = SeedSteps]
  /\ UNCHANGED <<documents, user_documents, USER, bucket, issued, now, req>>

\* applications.py:86-101  app_ref.get(), existence and ownership checks
UpdateApplicationGet(r) ==
  /\ req[r].pc = "idle"
  /\ \E uid \in Users, app_id \in Uuids, st \in AppUpdateStatuses, out \in Outcomes :
       LET q == [Begin("update_application", uid, app_id) EXCEPT !.status = st]
       IN req' = [req EXCEPT ![r] =
            IF out # OK
              THEN Fail(q, AppErrorDetail("Failed to update application: ", out), out)
            ELSE IF ~Exists(APPLICATION, app_id)
              THEN Raise(q, 404, <<"Application not found">>)
            ELSE IF APPLICATION[app_id].user_id # uid
              THEN Raise(q, 403, <<"Access denied: Application does not belong to current user">>)
            ELSE [q EXCEPT !.pc = "update"]]
  /\ UNCHANGED <<APPLICATION, documents, user_documents, USER, bucket, issued, now>>

\* applications.py:103-105
AppUpdateData(rec, st, t) ==
  IF st # None THEN [rec EXCEPT !.updated_at = t, !.status = st]
  ELSE [rec EXCEPT !.updated_at = t]

\* applications.py:103-107  app_ref.update(update_data)
UpdateApplicationUpdate(r) ==
  /\ Running(r, "update_application", "update")
  /\ \E out \in Outcomes :
       LET q == req[r]
           res == UpdateOutcome(APPLICATION, q.id, out)
       IN IF res = OK
            THEN /\ APPLICATION' =
                      [APPLICATION EXCEPT ![q.id] = AppUpdateData(@, q.status, now)]
                 /\ req' = [req EXCEPT ![r] = [q EXCEPT !.pc = "reget", !.wrote = TRUE]]
            ELSE /\ UNCHANGED APPLICATION
                 /\ req' = [req EXCEPT ![r] =
                              Fail(q, AppErrorDetail("Failed to update application: ", res), res)]
  /\ UNCHANGED <<documents, user_documents, USER, bucket, issued, now>>

\* applications.py:109-112  app_ref.get() and the response
UpdateApplicationReget(r) ==
  /\ Running(r, "update_application", "reget")
  /\ \E out \in Outcomes :
       LET q == req[r]
       IN req' = [req EXCEPT ![r] =
            IF out = OK /\ Exists(APPLICATION, q.id)
              THEN Return(q, 200, <<>>)
              ELSE Fail(q, AppErrorDetail("Failed to update application: ",
                                   IF out = OK THEN "validation error" ELSE out), out)]
  /\ UNCHANGED <<APPLICATION, documents, user_documents, USER, bucket, issued, now>>

\* Mutant: both fields are assigned whether supplied or not.
PatchStepOverwrite(step, document_id, status) ==
  [step EXCEPT !.document_id = document_id, !.status = status]

\* applications.py:153-156  the supplied fields overwrite, the others stay
PatchStep(step, document_id, status) ==
  LET s1 == IF document_id # None THEN [step EXCEPT !.document_id = document_id] ELSE step
  IN IF status # None THEN [s1 EXCEPT !.status = status] ELSE s1

\* Mutant: step_found is set before the scan.
StepFoundAlways(steps, step_id) == TRUE

\* applications.py:150-158  step_found
StepFound(steps, step_id) == \E i \in 1..Len(steps) : steps[i].step_id = step_id

\* applications.py:151-158  scan in order, patch the first match, break
RECURSIVE UpdateSteps(_, _, _, _)
UpdateSteps(steps, step_id, document_id, status) ==
  IF steps = <<>> THEN <<>>
  ELSE IF Head(steps).step_id = step_id
    THEN <<PatchStep(Head(steps), document_id, status)>> \o Tail(steps)
    ELSE <<Head(steps)>> \o UpdateSteps(Tail(steps), step_id, document_id, status)

\* applications.py:133-164  app_ref.get(), the checks and the scan
UpdateApplicationStepGet(r, bodies) ==
  /\ req[r].pc = "idle"
  /\ \E uid \in Users, app_id \in Uuids, step_id \in 1..(NumSteps + 1),
        step_update \in bodies, out \in Outcomes :
       LET q == [Begin("update_application_step", uid, app_id) EXCEPT
                   !.step_id = step_id, !.document_id = step_update.document_id,
                   !.status = step_update.status]
       IN req' = [req EXCEPT ![r] =
            IF out # OK
              THEN Fail(q, AppErrorDetail("Failed to update application step: ", out), out)
            ELSE IF ~Exists(APPLICATION, app_id)
              THEN Raise(q, 404, <<"Application not found">>)
            ELSE IF APPLICATION[app_id].user_id # uid
              THEN Raise(q, 403, <<"Access denied: Application does not belong to current user">>)
            ELSE IF ~StepFound(APPLICATION[app_id].application_steps, step_id)
              THEN Raise(q, 404, <<"Step with id ", step_id, " not found in application">>)
            ELSE [q EXCEPT !.pc = "set", !.local = <<APPLICATION[app_id]>>]]
  /\ UNCHANGED <<APPLICATION, documents, user_documents, USER, bucket, issued, now>>

\* Mutant: the step is patched into the record as stored at the write.
StepAppDataOnStored(app_data, step_id, document_id, status, t) ==
  [APPLICATION[app_data.app_id] EXCEPT
     !.application_steps = UpdateSteps(@, step_id, document_id, status),
     !.updated_at = t]

\* applications.py:149-167  app_data as the handler writes it back
StepAppData(app_data, step_id, document_id, status, t) ==
  [app_data EXCEPT
     !.application_steps = UpdateSteps(@, step_id, document_id, status),
     !.updated_at = t]

\* applications.py:166-171  app_ref.set(app_data) and the response
UpdateApplicationStepSet(r) ==
  /\ Running(r, "update_application_step", "set")
  /\ \E out \in Outcomes :
       LET q == req[r]
           app_data == StepAppData(q.local[1], q.step_id, q.document_id, q.status, now)
       IN IF out = OK
            THEN /\ APPLICATION' = Put(APPLICATION, q.id, app_data)
                 /\ req' = [req EXCEPT ![r] = Return([q EXCEPT !.wrote = TRUE], 200, <<>>)]
            ELSE /\ UNCHANGED APPLICATION
                 /\ req' = [req EXCEPT ![r] =
                              Fail(q, AppErrorDetail("Failed to update application step: ", out), out)]
  /\ UNCHANGED <<documents, user_documents, USER, bucket, issued, now>>

\* -------------------------------------------------------- document handler
\* Mutant: the limit itself is rejected.
TooLargeInclusive(size) == size >= MAX_FILE_SIZE

\* documents.py:45
TooLarge(size) == size > MAX_FILE_SIZE

\* str.strip(): the whitespace is taken off both ends.
Whitespace == {" "}

RECURSIVE LStrip(_)
LStrip(s) == IF s # <<>> /\ Head(s) \in Whitespace THEN LStrip(Tail(s)) ELSE s

RECURSIVE RStrip(_)
RStrip(s) ==
  IF s # <<>> /\ s[Len(s)] \in Whitespace THEN RStrip(SubSeq(s, 1, Len(s) - 1)) ELSE s

\* Mutant: only the leading whitespace is taken off.
StripLeading(s) == LStrip(s)

Strip(s) == RStrip(LStrip(s))

\* str.split(","): the pieces between the commas, empty pieces included;
\* piece is the part of the current piece read so far.
RECURSIVE Split(_, _)
Split(s, piece) ==
  IF s = <<>> THEN <<piece>>
  ELSE IF Head(s) = "," THEN <<piece>> \o Split(Tail(s), <<>>)
  ELSE Split(Tail(s), Append(piece, Head(s)))

\* [tag.strip() for tag in pieces if tag.strip()]
RECURSIVE StripKeep(_)
StripKeep(pieces) ==
  IF pieces = <<>> THEN <<>>
  ELSE IF Strip(Head(pieces)) # <<>>
    THEN <<Strip(Head(pieces))>> \o StripKeep(Tail(pieces))
    ELSE StripKeep(Tail(pieces))

\* documents.py:62-64  tag_list
TagList(tags) ==
  IF tags # Absent /\ tags[1] # <<>> THEN StripKeep(Split(tags[1], <<>>)) ELSE <<>>

\* documents.py:67-81
NewDocument(doc_id, uid, file, form, t) ==
  [doc_id |-> doc_id, user_id |-> uid,
   storage_path |-> StoragePath(uid, doc_id, file.filename),
   doc_type |-> form.document_type,
   status |-> PENDING_VALIDATION,
   document_title |-> form.document_title,
   file_name |-> file.filename, file_size |-> file.size,
   mime_type |-> IF file.content_type # None THEN file.content_type
                 ELSE "application/octet-stream",
   uploaded_at |-> t, updated_at |-> t,
   notes |-> IF form.notes = Absent THEN None ELSE form.notes[1],
   tags |-> TagList(form.tags)]

\* documents.py:85-92, 125-132, 162-169
ResponseData(doc_data) ==
  [doc_id |-> doc_data.doc_id, user_id |-> doc_data.user_id,
   storage_path |-> doc_data.storage_path, status |-> doc_data.status,
   created_at |-> doc_data.uploaded_at, updated_at |-> doc_data.updated_at]

\* documents.py:38-58  the checks, uuid4 and blob.upload_from_string
UploadDocument(r, forms) ==
  /\ req[r].pc = "idle"
  /\ \E uid \in Users, file \in Files, out \in Outcomes :
       \* local keeps the received file for as long as the handler runs
       LET q == Begin("upload_document", uid, 0)
           Received(d) == [d EXCEPT !.local = <<file>>]
       IN IF file.filename = ""
            THEN /\ req' = [req EXCEPT ![r] =
                              Received(Raise(q, 400, <<"No file provided">>))]
                 /\ UNCHANGED <<bucket, issued>>
          ELSE IF TooLarge(file.size)
            THEN /\ req' = [req EXCEPT ![r] =
                              Received(Raise(q, 400, <<"File size exceeds 10MB limit">>))]
                 /\ UNCHANGED <<bucket, issued>>
          ELSE \E doc_id \in Uuids \ DOMAIN issued, form \in forms :
                 LET storage_path == StoragePath(uid, doc_id, file.filename)
                     q1 == [q EXCEPT !.id = doc_id, !.local = <<file, form>>]
                 IN /\ issued' = Put(issued, doc_id, uid)
                    /\ IF out = OK
                         THEN /\ bucket' = Put(bucket, storage_path,
                                     [size |-> file.size, content_type |-> file.content_type,
                                      public |-> FALSE])
                              /\ req' = [req EXCEPT ![r] =
                                           [q1 EXCEPT !.pc = "make_public", !.wrote = TRUE]]
                         ELSE /\ UNCHANGED bucket
                              /\ req' = [req EXCEPT ![r] =
                                           Received(Fail(q1, <<"Failed to upload document">>, out))]
  /\ UNCHANGED <<APPLICATION, documents, user_documents, USER, now>>

\* documents.py:60  blob.make_public()
UploadMakePublic(r) ==
  /\ Running(r, "upload_document", "make_public")
  /\ \E out \in Outcomes :
       LET q == req[r]
           storage_path == StoragePath(q.uid, q.id, q.local[1].filename)
       IN IF out = OK /\ Exists(bucket, storage_path)
            THEN /\ bucket' = [bucket EXCEPT ![storage_path].public = TRUE]
                 /\ req' = [req EXCEPT ![r] = [q EXCEPT !.pc = "set"]]
            ELSE /\ UNCHANGED bucket
                 /\ req' = [req EXCEPT ![r] = Fail(q, <<"Failed to upload document">>, out)]
  /\ UNCHANGED <<APPLICATION, documents, user_documents, USER, issued, now>>

\* documents.py:66-94  db.collection("documents").document(doc_id).set(doc_data)
UploadSet(r) ==
  /\ Running(r, "upload_document", "set")
  /\ \E out \in Outcomes :
       LET q == req[r]
           doc_data == NewDocument(q.id, q.uid, q.local[1], q.local[2], now)
       IN IF out = OK
            THEN /\ documents' = Put(documents, q.id, doc_data)
                 /\ req' = [req EXCEPT ![r] =
                              [Return(q, 201, <<ResponseData(doc_data)>>) EXCEPT
                                 !.local = q.local]]
            ELSE /\ UNCHANGED documents
                 /\ req' = [req EXCEPT ![r] = Fail(q, <<"Failed to upload document">>, out)]
  /\ UNCHANGED <<APPLICATION, user_documents, USER, bucket, issued, now>>

\* The orders in which a query ordered by uploaded_at, descending, can stream
\* the records ids of table: newest first, records of one time in any order.
Streams(table, ids) ==
  {order \in [1..Cardinality(ids) -> ids] :
     /\ \A i, j \in DOMAIN order : i # j => order[i] # order[j]
     /\ \A i, j \in DOMAIN order :
          i < j => table[order[i]].uploaded_at >= table[order[j]].uploaded_at}

\* Mutant: the limit is applied to the stream before the offset.
PageLimitFirst(order, offset, limit) ==
  LET cut == IF limit < Len(order) THEN limit ELSE Len(order)
  IN IF offset >= cut THEN <<>> ELSE SubSeq(order, offset + 1, cut)

\* .offset(offset).limit(limit): skip the first offset, then at most limit
Page(order, offset, limit) ==
  LET last == IF offset + limit < Len(order) THEN offset + limit ELSE Len(order)
  IN IF offset >= Len(order) THEN <<>> ELSE SubSeq(order, offset + 1, last)

\* documents.py:107-142  reads collection "documents"; the framework answers
\* 422 for a limit or offset outside the declared range
GetUserDocuments(r, limits, offsets) ==
  /\ req[r].pc = "idle"
  /\ \E uid \in Users, limit \in limits, offset \in offsets, out \in Outcomes :
       LET q == [Begin("get_user_documents", uid, 0) EXCEPT !.local = <<limit, offset>>]
           mine == {id \in DOMAIN documents : documents[id].user_id = uid}
           Asked(d) == [d EXCEPT !.local = <<limit, offset>>]
       IN IF limit < MIN_LIMIT \/ limit > MAX_LIMIT \/ offset < MIN_OFFSET
            THEN req' = [req EXCEPT ![r] =
                   Asked(Raise(q, 422, <<"Unprocessable Entity">>))]
          ELSE IF out # OK
            THEN req' = [req EXCEPT ![r] =
                   Asked(Fail(q, <<"Failed to get documents">>, out))]
          ELSE \E order \in Streams(documents, mine) :
                 LET page == Page(order, offset, limit)
                 IN req' = [req EXCEPT ![r] =
                      Asked(Return(q, 200,
                              [i \in DOMAIN page |-> ResponseData(documents[page[i]])]))]
  /\ UNCHANGED <<APPLICATION, documents, user_documents, USER, bucket, issued, now>>

\* documents.py:150-176  reads collection "documents"
GetDocument(r) ==
  /\ req[r].pc = "idle"
  /\ \E uid \in Users, doc_id \in Uuids, out \in Outcomes :
       LET q == Begin("get_document", uid, doc_id)
       IN req' = [req EXCEPT ![r] =
            IF out # OK THEN Fail(q, <<"Failed to get document">>, out)
            ELSE IF ~Exists(documents, doc_id)
              THEN Raise(q, 404, <<"Document not found">>)
            ELSE IF documents[doc_id].user_id # uid
              THEN Raise(q, 403, <<"You don't have permission to access this document">>)
            ELSE Return(q, 200, <<ResponseData(documents[doc_id])>>)]
  /\ UNCHANGED <<APPLICATION, documents, user_documents, USER, bucket, issued, now>>

\* documents.py:188-236  reads and writes collection "user_documents"
UpdateDocument(r) ==
  /\ req[r].pc \in {"idle", "update", "reget"}
  /\ req[r].pc # "idle" => req[r].op = "update_document"
  /\ \E uid \in Users, doc_id \in Uuids, out \in Outcomes :
       LET q == IF req[r].pc = "idle" THEN Begin("update_document", uid, doc_id) ELSE req[r]
           res == UpdateOutcome(user_documents, q.id, out)
       IN /\ req[r].pc # "idle" => uid = q.uid /\ doc_id = q.id
          /\ IF req[r].pc = "idle"
               THEN \* doc_ref.get(), existence and ownership checks
                    /\ req' = [req EXCEPT ![r] =
                         IF out # OK THEN Fail(q, <<"Failed to update document">>, out)
                         ELSE IF ~Exists(user_documents, doc_id)
                           THEN Raise(q, 404, <<"Document not found">>)
                         ELSE IF user_documents[doc_id].user_id # uid
                           THEN Raise(q, 403,
                                  <<"You don't have permission to update this document">>)
                         ELSE [q EXCEPT !.pc = "update"]]
                    /\ UNCHANGED user_documents
             ELSE IF req[r].pc = "update"
               THEN \* doc_ref.update(update_data)
                    IF res = OK
                      THEN /\ user_documents' =
                                [user_documents EXCEPT ![q.id].updated_at = now]
                           /\ req' = [req EXCEPT ![r] =
                                        [q EXCEPT !.pc = "reget", !.wrote = TRUE]]
                      ELSE /\ UNCHANGED user_documents
                           /\ req' = [req EXCEPT ![r] =
                                        Fail(q, <<"Failed to update document">>, res)]
             ELSE \* doc_ref.get() and the response
                  /\ req' = [req EXCEPT ![r] =
                       IF out = OK /\ Exists(user_documents, q.id)
                         THEN Return(q, 200, <<>>)
                         ELSE Fail(q, <<"Failed to update document">>, out)]
                  /\ UNCHANGED user_documents
  /\ UNCHANGED <<APPLICATION, documents, USER, bucket, issued, now>>

\* documents.py:244-254  reads collection "documents"
DeleteDocumentGet(r) ==
  /\ req[r].pc = "idle"
  /\ \E uid \in Users, doc_id \in Uuids, out \in Outcomes :
       LET q == Begin("delete_document", uid, doc_id)
       IN req' = [req EXCEPT ![r] =
            IF out # OK THEN Fail(q, <<"Failed to delete document">>, out)
            ELSE IF ~Exists(documents, doc_id)
              THEN Raise(q, 404, <<"Document not found">>)
            ELSE IF documents[doc_id].user_id # uid
              THEN Raise(q, 403, <<"You don't have permission to delete this document">>)
            ELSE [q EXCEPT !.pc = "exists", !.local = <<documents[doc_id].storage_path>>]]
  /\ UNCHANGED <<APPLICATION, documents, user_documents, USER, bucket, issued, now>>

\* Mutant: the exception of the blob calls reaches the handler's except clause.
BlobErrorRaised(q) == Raise(q, 500, <<"Failed to delete document">>)

\* documents.py:263-264  the exception of the blob calls is logged, not raised
SwallowBlobError(q) == [q EXCEPT !.pc = "delete", !.blob = "failed"]

\* documents.py:256-261  blob.exists()
DeleteBlobExists(r) ==
  /\ Running(r, "delete_document", "exists")
  /\ \E out \in Outcomes :
       LET q == req[r]
       IN req' = [req EXCEPT ![r] =
            IF out # OK THEN SwallowBlobError(q)
            ELSE IF Exists(bucket, q.local[1]) THEN [q EXCEPT !.pc = "blob_delete"]
            ELSE [q EXCEPT !.pc = "delete", !.blob = "absent"]]
  /\ UNCHANGED <<APPLICATION, documents, user_documents, USER, bucket, issued, now>>

\* documents.py:262  blob.delete(), NotFound when the blob has gone meanwhile
DeleteBlobDelete(r) ==
  /\ Running(r, "delete_document", "blob_delete")
  /\ \E out \in Outcomes :
       LET q == req[r]
       IN IF out = OK /\ Exists(bucket, q.local[1])
            THEN /\ bucket' = Remove(bucket, q.local[1])
                 /\ req' = [req EXCEPT ![r] =
                              [q EXCEPT !.pc = "delete", !.blob = "deleted", !.wrote = TRUE]]
            ELSE /\ UNCHANGED bucket
                 /\ req' = [req EXCEPT ![r] = SwallowBlobError(q)]
  /\ UNCHANGED <<APPLICATION, documents, user_documents, USER, issued, now>>

\* documents.py:266-268  doc_ref.delete()
DeleteDocumentDelete(r) ==
  /\ Running(r, "delete_document", "delete")
  /\ \E out \in Outcomes :
       LET q == req[r]
       IN IF out = OK
            THEN /\ documents' = Remove(documents, q.id)
                 /\ req' = [req EXCEPT ![r] = Return([q EXCEPT !.wrote = TRUE], 200, <<>>)]
            ELSE /\ UNCHANGED documents
                 /\ req' = [req EXCEPT ![r] = Fail(q, <<"Failed to delete document">>, out)]
  /\ UNCHANGED <<APPLICATION, user_documents, USER, bucket, issued, now>>

\* documents.py:285-342  reads collection "user_documents", then the bucket
DownloadDocument(r) ==
  /\ req[r].pc \in {"idle", "exists", "download"}
  /\ req[r].pc # "idle" => req[r].op = "download_document"
  /\ \E uid \in Users, doc_id \in Uuids, out \in Outcomes :
       LET q == IF req[r].pc = "idle" THEN Begin("download_document", uid, doc_id) ELSE req[r]
       IN /\ req[r].pc # "idle" => uid = q.uid /\ doc_id = q.id
          /\ req' = [req EXCEPT ![r] =
               IF out # OK THEN Fail(q, <<"Failed to download document">>, out)
               ELSE IF req[r].pc = "idle"
                 THEN \* doc_ref.get(), existence and ownership checks
                      IF ~Exists(user_documents, doc_id)
                        THEN Raise(q, 404, <<"Document not found">>)
                      ELSE IF user_documents[doc_id].user_id # uid
                        THEN Raise(q, 403,
                               <<"You don't have permission to download this document">>)
                      ELSE [q EXCEPT !.pc = "exists",
                                     !.local = <<user_documents[doc_id]>>]
               ELSE IF req[r].pc = "exists"
                 THEN \* blob.exists()
                      IF Exists(bucket, q.local[1].storage_path)
                        THEN [q EXCEPT !.pc = "download"]
                        ELSE Raise(q, 404, <<"File not found in storage">>)
               ELSE \* blob.download_as_bytes()
                    IF Exists(bucket, q.local[1].storage_path)
                      THEN Return(q, 200,
                             <<[content |-> bucket[q.local[1].storage_path].size,
                                media_type |-> q.local[1].mime_type]>>)
                      ELSE Fail(q, <<"Failed to download document">>, out)]
  /\ UNCHANGED <<APPLICATION, documents, user_documents, USER, bucket, issued, now>>

\* ----------------------------------------------------------------- calendar
\* now counts the days since the epoch; the time of day is left out, so a
\* datetime of day n is at or after the midnight that starts day n.
Epoch == [year |-> 2024, month |-> 1, day |-> 1]

IsLeap(y) == (y % 4 = 0) /\ ((y % 100 # 0) \/ (y % 400 = 0))
DaysInYear(y) == IF IsLeap(y) THEN 366 ELSE 365
DaysInMonth(y, m) ==
  IF m = 2 THEN (IF IsLeap(y) THEN 29 ELSE 28)
  ELSE IF m \in {4, 6, 9, 11} THEN 30 ELSE 31

\* now.year, now.month, now.day of day n
RECURSIVE DateFrom(_, _, _)
DateFrom(y, m, n) ==
  IF n >= DaysInYear(y) /\ m = 1 THEN DateFrom(y + 1, 1, n - DaysInYear(y))
  ELSE IF n >= DaysInMonth(y, m) THEN DateFrom(y, m + 1, n - DaysInMonth(y, m))
  ELSE [year |-> y, month |-> m, day |-> n + 1]

Date(n) == DateFrom(Epoch.year, Epoch.month, n)

\* The day number of the first of month m of year y.
RECURSIVE MonthStart(_, _)
MonthStart(y, m) ==
  IF y > Epoch.year THEN DaysInYear(y - 1) + MonthStart(y - 1, m)
  ELSE IF m > 1 THEN DaysInMonth(y, m - 1) + MonthStart(y, m - 1)
  ELSE 0

\* datetime(year, month, day) raises ValueError unless day is a day of the
\* month; otherwise it is the midnight that starts that date.
ValueError == "day is out of range for month"
ValidDay(y, m, d) == d >= 1 /\ d <= DaysInMonth(y, m)
DateTime(y, m, d) == MonthStart(y, m) + d - 1

\* ------------------------------------------------------------------- stats
\* documents.py:390  round(total_size_bytes / (1024 * 1024), 2), in hundredths
\* of a megabyte: the nearest hundredth, the even one of two equally near.
RoundMb(bytes) ==
  LET unit == 1024 * 1024
      whole == (bytes * 100) \div unit
      rest == (bytes * 100) % unit
  IN IF 2 * rest > unit \/ (2 * rest = unit /\ whole % 2 = 1) THEN whole + 1 ELSE whole

\* stats[key][v] = stats[key].get(v, 0) + 1
Count(dict, v) ==
  [k \in (DOMAIN dict) \cup {v} |->
     IF k = v THEN (IF v \in DOMAIN dict THEN dict[v] + 1 ELSE 1) ELSE dict[k]]

\* documents.py:357-387  the loop over the streamed records, in any order
RECURSIVE Accumulate(_, _, _, _)
Accumulate(stats, table, ids, seven_days_ago) ==
  IF ids = {} THEN stats
  ELSE LET id == CHOOSE x \in ids : TRUE
           doc_data == table[id]
       IN Accumulate(
            [total_documents |-> stats.total_documents + 1,
             by_type |-> Count(stats.by_type, doc_data.doc_type),
             by_status |-> Count(stats.by_status, doc_data.status),
             total_size_bytes |-> stats.total_size_bytes + doc_data.file_size,
             recent_uploads |->
               IF doc_data.uploaded_at >= seven_days_ago
                 THEN stats.recent_uploads + 1 ELSE stats.recent_uploads],
            table, ids \ {id}, seven_days_ago)

\* documents.py:354-392  reads collection "user_documents"
GetDocumentStats(r) ==
  /\ req[r].pc = "idle"
  /\ \E uid \in Users, out \in Outcomes :
       LET q == Begin("get_document_stats", uid, 0)
           today == Date(now)
           seven_days_ago == DateTime(today.year, today.month, today.day - 7)
           mine == {id \in DOMAIN user_documents : user_documents[id].user_id = uid}
           stats == Accumulate(
                      [total_documents |-> 0, by_type |-> <<>>, by_status |-> <<>>,
                       total_size_bytes |-> 0, recent_uploads |-> 0],
                      user_documents, mine, seven_days_ago)
       IN req' = [req EXCEPT ![r] =
            \* the constructor raises before the stream is read
            IF ~ValidDay(today.year, today.month, today.day - 7)
              THEN Fail(q, <<"Failed to get document statistics">>, ValueError)
            ELSE IF out # OK
              THEN Fail(q, <<"Failed to get document statistics">>, out)
            ELSE Return(q, 200,
                   <<[total_documents |-> stats.total_documents,
                      by_type |-> stats.by_type, by_status |-> stats.by_status,
                      total_size_bytes |-> stats.total_size_bytes,
                      recent_uploads |-> stats.recent_uploads,
                      total_size_mb |-> RoundMb(stats.total_size_bytes)]>>)]
  /\ UNCHANGED <<APPLICATION, documents, user_documents, USER, bucket, issued, now>>

\* ------------------------------------------------------------ user handler
\* users.py:16-34  no try block: an exception of the store reaches the framework
GetUserProfile(r) ==
  /\ req[r].pc = "idle"
  /\ \E uid \in Users, out \in Outcomes :
       LET q == Begin("get_user_profile", uid, 0)
       IN req' = [req EXCEPT ![r] =
            IF out # OK THEN Fail(q, <<"Internal Server Error">>, out)
            ELSE IF ~Exists(USER, uid) THEN Raise(q, 404, <<"User not found">>)
            ELSE Return(q, 200, <<>>)]
  /\ UNCHANGED <<APPLICATION, documents, user_documents, USER, bucket, issued, now>>

\* users.py:62-66  detail=f"Failed to update profile: {str(e)}"
UserErrorDetail(e) == <<"Failed to update profile: ", e>>

\* users.py:47-54  user_ref.update(update_data)
UpdateUserProfile(r) ==
  /\ req[r].pc = "idle"
  /\ \E uid \in Users, out \in Outcomes :
       LET q == Begin("update_user_profile", uid, 0)
           res == UpdateOutcome(USER, uid, out)
       IN IF res = OK
            THEN /\ USER' = [USER EXCEPT ![uid].updated_at = now]
                 /\ req' = [req EXCEPT ![r] = [q EXCEPT !.pc = "reget", !.wrote = TRUE]]
            ELSE /\ UNCHANGED USER
                 /\ req' = [req EXCEPT ![r] = Fail(q, UserErrorDetail(res), res)]
  /\ UNCHANGED <<APPLICATION, documents, user_documents, bucket, issued, now>>

\* users.py:56-60  user_ref.get() and the response
UpdateUserProfileReget(r) ==
  /\ Running(r, "update_user_profile", "reget")
  /\ \E out \in Outcomes :
       LET q == req[r]
       IN req' = [req EXCEPT ![r] =
            IF out = OK THEN Return(q, 200, <<>>) ELSE Fail(q, UserErrorDetail(out), out)]
  /\ UNCHANGED <<APPLICATION, documents, user_documents, USER, bucket, issued, now>>

\* ------------------------------------------------ the stats handler alone
\* Any day of the epoch's year, and any records of up to NumStatDocs documents
\* in the collection the handler reads: each uploaded MinAge or MinAge + 1
\* days before today, by any user, with one of two sizes.
CalendarDays == 0..(DaysInYear(Epoch.year) - 1)
StatDocIds == 1..NumStatDocs
StatAges == {7, 8}
StatSizes == {1, MAX_FILE_SIZE}
StatChoices == {<<>>} \cup (Users \X StatAges \X StatSizes)
StatTable(choice, today) ==
  [id \in {i \in StatDocIds : choice[i] # <<>>} |->
     NewDocument(id, choice[id][1],
                 [filename |-> "a.pdf", size |-> choice[id][3], content_type |-> None],
                 PlainForm, today - choice[id][2])]

InitStats ==
  /\ now \in CalendarDays
  /\ \E choice \in [StatDocIds -> StatChoices] :
       user_documents = StatTable(choice, now)
  /\ APPLICATION = <<>>
  /\ documents = <<>>
  /\ USER = [u \in Users |-> [uid |-> u, name |-> "Ada", updated_at |-> 0]]
  /\ bucket = <<>>
  /\ issued = <<>>
  /\ req = [r \in Single |-> Idle]

NextStats == \E r \in Single : Reply(r) \/ GetDocumentStats(r)

SpecStats == InitStats /\ [][NextStats]_vars

\* ------------------------------------------------- the list handler alone
\* Up to NumListDocs uploaded documents, each of any user and uploaded at one
\* of three times, with their blobs; then list requests with limits and
\* offsets at and around the ends of their ranges.
ListDocIds == 1..NumListDocs
ListTimes == {0, 1, 2}
ListChoices == {<<>>} \cup (Users \X ListTimes)
ListFile == [filename |-> "a.pdf", size |-> 1, content_type |-> "application/pdf"]
Limits == {MIN_LIMIT - 1, MIN_LIMIT, MIN_LIMIT + 1, MAX_LIMIT, MAX_LIMIT + 1}
Offsets == {MIN_OFFSET - 1, MIN_OFFSET, MIN_OFFSET + 1, MIN_OFFSET + 2, NumListDocs}

InitList ==
  \E choice \in [ListDocIds -> ListChoices] :
    LET ids == {i \in ListDocIds : choice[i] # <<>>}
    IN \* uuid4 values are labels: the first ones stand for those issued
       /\ \A i \in ids : i > 1 => (i - 1) \in ids
       /\ documents =
            [id \in ids |-> NewDocument(id, choice[id][1], ListFile, PlainForm, choice[id][2])]
       /\ bucket =
            [path \in {StoragePath(choice[id][1], id, ListFile.filename) : id \in ids} |->
               [size |-> ListFile.size, content_type |-> ListFile.content_type,
                public |-> TRUE]]
       /\ issued = [id \in ids |-> choice[id][1]]
       /\ APPLICATION = <<>>
       /\ user_documents = <<>>
       /\ USER = [u \in Users |-> [uid |-> u, name |-> "Ada", updated_at |-> 0]]
       /\ now = 2
       /\ req = [r \in Single |-> Idle]

NextList == \E r \in Single : Reply(r) \/ GetUserDocuments(r, Limits, Offsets)

SpecList == InitList /\ [][NextList]_vars

\* ----------------------------------------------- the upload handler alone
\* One upload, with every tags string.
NextTags ==
  \E r \in Single :
    \/ UploadDocument(r, TagForms)
    \/ UploadMakePublic(r)
    \/ UploadSet(r)

SpecTags == InitOne /\ [][NextTags]_vars

\* Every route, served by one worker, with every step body.
Next ==
  \/ Tick
  \/ PopulateSteps
  \/ \E r \in Single :
       \/ Reply(r)
       \/ CreateApplication(r)
       \/ UpdateApplicationGet(r)
       \/ UpdateApplicationUpdate(r)
       \/ UpdateApplicationReget(r)
       \/ UpdateApplicationStepGet(r, StepUpdates)
       \/ UpdateApplicationStepSet(r)
       \/ UploadDocument(r, {PlainForm})
       \/ UploadMakePublic(r)
       \/ UploadSet(r)
       \/ GetUserDocuments(r, {DEFAULT_LIMIT}, {DEFAULT_OFFSET})
       \/ GetDocument(r)
       \/ UpdateDocument(r)
       \/ DeleteDocumentGet(r)
       \/ DeleteBlobExists(r)
       \/ DeleteBlobDelete(r)
       \/ DeleteDocumentDelete(r)
       \/ DownloadDocument(r)
       \/ GetDocumentStats(r)
       \/ GetUserProfile(r)
       \/ UpdateUserProfile(r)
       \/ UpdateUserProfileReget(r)

Spec == InitOne /\ [][Next]_vars

\* The application and document routes that address one record, served by
\* NumReq workers whose remote calls interleave; step bodies set the status
\* only.
NextConc ==
  \/ Tick
  \/ PopulateSteps
  \/ \E r \in Reqs :
       \/ Reply(r)
       \/ CreateApplication(r)
       \/ UpdateApplicationGet(r)
       \/ UpdateApplicationUpdate(r)
       \/ UpdateApplicationReget(r)
       \/ UpdateApplicationStepGet(r, {StatusOnly})
       \/ UpdateApplicationStepSet(r)
       \/ UploadDocument(r, {PlainForm})
       \/ UploadMakePublic(r)
       \/ UploadSet(r)
       \/ GetDocument(r)
       \/ UpdateDocument(r)
       \/ DeleteDocumentGet(r)
       \/ DeleteBlobExists(r)
       \/ DeleteBlobDelete(r)
       \/ DeleteDocumentDelete(r)
       \/ DownloadDocument(r)

SpecConc == Init /\ [][NextConc]_vars

\* =================================================================== claims
\* A worker takes a request and runs its handler up to the first remote call.
Starts(r) == req[r].pc = "idle" /\ req'[r].pc # "idle"

\* The handler leaves the record store and the blob store as they are.
StoresUnchanged == UNCHANGED <<APPLICATION, documents, user_documents, USER, bucket>>

AppOps == {"update_application", "update_application_step"}
OwnerGuarded == AppOps \cup {"get_document", "update_document", "delete_document"}
LookupOps == OwnerGuarded \cup {"download_document"}

\* The stored records a route is about: applications, uploaded documents.
Stored(op) == IF op \in AppOps THEN APPLICATION ELSE documents

\* C1: a get, update or delete of a stored application or uploaded document by
\* a caller other than the record's user_id ends in 403 and changes nothing
\* (the record store having answered the lookup).
C1_NonOwnerForbidden ==
  [][\A r \in DOMAIN req :
       LET q == req'[r]
       IN (/\ Starts(r)
           /\ q.op \in OwnerGuarded
           /\ Exists(Stored(q.op), q.id)
           /\ Stored(q.op)[q.id].user_id # q.uid
           /\ ~q.fault)
          => (q.pc = "done" /\ q.code = 403 /\ StoresUnchanged)]_vars

\* C2: a get, update, delete or download of an identifier that names no stored
\* record ends in 404 and writes nothing; it ends in 500 only when the remote
\* lookup itself failed.
Unknown(op, id) ==
  IF op \in AppOps THEN ~Exists(APPLICATION, id)
  ELSE ~Exists(documents, id) /\ ~Exists(user_documents, id)

C2_UnknownIdNotFound ==
  [][\A r \in DOMAIN req :
       LET q == req'[r]
       IN (Starts(r) /\ q.op \in LookupOps /\ Unknown(q.op, q.id))
          => (/\ q.pc = "done"
              /\ q.code \in {404, 500}
              /\ q.code = 500 <=> q.fault
              /\ ~q.wrote
              /\ StoresUnchanged)]_vars

\* A delete of an identifier uuid4 never returned has ended in 404.
C2_Witness ==
  \E r \in DOMAIN req :
    /\ req[r].op = "delete_document" /\ req[r].pc = "done"
    /\ req[r].code = 404 /\ req[r].id \notin DOMAIN issued

\* C3: a successful step update by the owner rewrites the stored application
\* with exactly the first step of that step_id patched: the supplied
\* document_id and status are taken, a field not supplied and every other field
\* of the step stay, every other step stays, the list keeps length and order,
\* and only application_steps and updated_at of the application differ.
C3_StepUpdateChangesOneStep ==
  [][\A r \in DOMAIN req :
       (Running(r, "update_application_step", "set") /\ req'[r].code = 200)
       => LET q == req[r]
              old == APPLICATION[q.id]
              new == APPLICATION'[q.id]
              os == old.application_steps
              ns == new.application_steps
              hits == {i \in 1..Len(os) : os[i].step_id = q.step_id}
              first == CHOOSE i \in hits : \A j \in hits : i <= j
          IN /\ hits # {}
             /\ Len(ns) = Len(os)
             /\ \A i \in 1..Len(os) :
                  IF i = first
                    THEN /\ ns[i].document_id =
                              (IF q.document_id # None THEN q.document_id
                               ELSE os[i].document_id)
                         /\ ns[i].status =
                              (IF q.status # None THEN q.status ELSE os[i].status)
                         /\ ns[i].step_id = os[i].step_id
                         /\ ns[i].title = os[i].title
                    ELSE ns[i] = os[i]
             /\ [new EXCEPT !.application_steps = os, !.updated_at = old.updated_at] = old
             /\ UNCHANGED <<documents, user_documents, USER, bucket>>]_vars

\* A document_id-only update of step 2 has succeeded: step 2 carries the
\* document and its old status, step 1 is as seeded.
C3_Witness ==
  \E r \in DOMAIN req :
    /\ req[r].op = "update_application_step" /\ req[r].pc = "done" /\ req[r].code = 200
    /\ req[r].step_id = 2 /\ req[r].document_id = "d1" /\ req[r].status = None
    /\ Exists(APPLICATION, req[r].id)
    /\ APPLICATION[req[r].id].application_steps =
         [SeedSteps EXCEPT ![2].document_id = "d1"]

\* C4: a step update by the owner of an existing application with a step_id
\* that matches no step ends in 404 and leaves the stored application, and
\* every other store, as it was.
C4_UnknownStepNotFound ==
  [][\A r \in DOMAIN req :
       LET q == req'[r]
       IN (/\ Starts(r)
           /\ q.op = "update_application_step"
           /\ Exists(APPLICATION, q.id)
           /\ APPLICATION[q.id].user_id = q.uid
           /\ \A i \in 1..Len(APPLICATION[q.id].application_steps) :
                APPLICATION[q.id].application_steps[i].step_id # q.step_id
           /\ ~q.fault)
          => (/\ q.pc = "done" /\ q.code = 404 /\ ~q.wrote
              /\ APPLICATION' = APPLICATION
              /\ StoresUnchanged)]_vars

\* The owner asked for a step that the populated list does not hold: 404.
C4_Witness ==
  \E r \in DOMAIN req :
    /\ req[r].op = "update_application_step" /\ req[r].pc = "done" /\ req[r].code = 404
    /\ req[r].detail # <<>> /\ req[r].detail[1] = "Step with id "
    /\ Exists(APPLICATION, req[r].id)
    /\ APPLICATION[req[r].id].user_id = req[r].uid
    /\ Len(APPLICATION[req[r].id].application_steps) = NumSteps

\* C5: an upload of more than 10,485,760 bytes ends in 400 before any blob or
\* record write; one of exactly 10,485,760 bytes is not rejected; no stored
\* document is larger than 10,485,760 bytes.
C5_SizeLimit ==
  /\ [](\A d \in DOMAIN documents : documents[d].file_size <= 10485760)
  /\ [][\A r \in DOMAIN req :
          LET q == req'[r]
          IN (Starts(r) /\ q.op = "upload_document")
             => /\ q.local[1].size > 10485760
                     => (/\ q.pc = "done" /\ q.code = 400 /\ ~q.wrote
                         /\ StoresUnchanged)
                /\ (q.local[1].size = 10485760 /\ q.local[1].filename # "")
                     => q.code # 400]_vars

\* A document of exactly 10,485,760 bytes is stored and an upload one byte
\* larger has been rejected for its size.
C5_Witness ==
  /\ \E d \in DOMAIN documents : documents[d].file_size = 10485760
  /\ \E r \in DOMAIN req :
       /\ req[r].op = "upload_document" /\ req[r].pc = "done" /\ req[r].code = 400
       /\ req[r].local[1].size = 10485761 /\ req[r].local[1].filename # ""
       /\ ~req[r].wrote

\* C6: delete_document by the owner attempts the blob first and then deletes
\* the record; whatever the blob side does (deleted, already absent, the call
\* failed) the handler goes on to the record deletion, which removes the
\* record and answers 200 unless the record store itself fails.
C6_DeleteSwallowsBlobFailure ==
  /\ [](\A r \in DOMAIN req :
          Running(r, "delete_document", "delete")
          => req[r].blob \in {"deleted", "absent", "failed"})
  /\ [][\A r \in DOMAIN req :
          LET q == req[r]
              q2 == req'[r]
          IN /\ (/\ Starts(r) /\ q2.op = "delete_document"
                 /\ Exists(documents, q2.id) /\ documents[q2.id].user_id = q2.uid
                 /\ ~q2.fault)
                => q2.pc = "exists"
             /\ (q.op = "delete_document" /\ q.pc \in {"exists", "blob_delete"} /\ q2 # q)
                => (q2.pc \in {"blob_delete", "delete"} /\ q2.code = 0)
             /\ (Running(r, "delete_document", "delete") /\ q2 # q /\ ~q2.fault)
                => (q2.pc = "done" /\ q2.code = 200 /\ ~Exists(documents', q.id))]_vars
  /\ [][\A d \in DOMAIN documents :
          ~Exists(documents', d)
          => \E r \in DOMAIN req :
               Running(r, "delete_document", "delete") /\ req[r].id = d
               /\ req'[r].pc = "done"]_vars

\* A delete whose blob call failed has removed the record and answered 200;
\* the blob is still in the bucket.
C6_Witness ==
  \E r \in DOMAIN req :
    /\ req[r].op = "delete_document" /\ req[r].pc = "done" /\ req[r].code = 200
    /\ req[r].blob = "failed"
    /\ req[r].id \in DOMAIN issued /\ ~Exists(documents, req[r].id)
    /\ bucket # <<>>

\* C7: the step update writes the whole step list as the request read it:
\* every step other than its own is stored with the value read, whatever has
\* been stored since the read.  (With C7_LostUpdate: two updates that both
\* read before either wrote end with the earlier change gone.)
C7_LastWriterWins ==
  [][\A r \in DOMAIN req :
       (Running(r, "update_application_step", "set") /\ req'[r].code = 200)
       => LET q == req[r]
              read == q.local[1].application_steps
              ns == APPLICATION'[q.id].application_steps
          IN /\ Len(ns) = Len(read)
             /\ \A j \in 1..Len(read) :
                  read[j].step_id # q.step_id => ns[j] = read[j]]_vars

\* Two step updates of one application, on different steps, both answered
\* 200 with status "completed", and a step one of them completed is stored
\* as pending.
C7_LostUpdate ==
  \E r1, r2 \in DOMAIN req :
    /\ r1 # r2
    /\ \A r \in {r1, r2} :
         /\ req[r].op = "update_application_step" /\ req[r].pc = "done"
         /\ req[r].code = 200 /\ req[r].status = "completed"
    /\ req[r1].id = req[r2].id
    /\ req[r1].step_id # req[r2].step_id
    /\ Exists(APPLICATION, req[r1].id)
    /\ \E j \in 1..Len(APPLICATION[req[r1].id].application_steps) :
         /\ APPLICATION[req[r1].id].application_steps[j].step_id = req[r1].step_id
         /\ APPLICATION[req[r1].id].application_steps[j].status = "pending"

\* C8: every stored application and document carries the uid of the caller
\* whose create request made its identifier, through every update, step
\* update, upload and delete.
C8_OwnerIsCreator ==
  /\ \A id \in DOMAIN APPLICATION :
       id \in DOMAIN issued /\ APPLICATION[id].user_id = issued[id]
  /\ \A id \in DOMAIN documents :
       id \in DOMAIN issued /\ documents[id].user_id = issued[id]
  /\ \A id \in DOMAIN user_documents :
       id \in DOMAIN issued /\ user_documents[id].user_id = issued[id]

\* An application that a status update and a step update have both rewritten.
C8_Witness ==
  \E id \in DOMAIN APPLICATION :
    /\ APPLICATION[id].status = "SUBMITTED"
    /\ \E j \in 1..Len(APPLICATION[id].application_steps) :
         APPLICATION[id].application_steps[j].status = "completed"
    /\ APPLICATION[id].user_id = issued[id]

\* C9: create_application returns and stores a DRAFT application with no
\* steps, upload_document returns and stores a PENDING_VALIDATION document,
\* both owned by the caller.
C9_InitialStatus ==
  [][\A r \in DOMAIN req :
       LET q == req'[r]
       IN /\ (Starts(r) /\ q.op = "create_application" /\ q.code = 201)
             => (/\ q.resp[1].status = "DRAFT"
                 /\ q.resp[1].application_steps = <<>>
                 /\ q.resp[1].user_id = q.uid
                 /\ Exists(APPLICATION', q.id)
                 /\ APPLICATION'[q.id] = q.resp[1])
          /\ (Running(r, "upload_document", "set") /\ q.code = 201)
             => (/\ q.resp[1].status = "PENDING_VALIDATION"
                 /\ q.resp[1].user_id = q.uid
                 /\ Exists(documents', q.id)
                 /\ documents'[q.id].status = "PENDING_VALIDATION"
                 /\ documents'[q.id].user_id = q.uid)]_vars

\* A create_application has answered 201 and its record is stored.
C9_Witness ==
  \E r \in DOMAIN req :
    /\ req[r].op = "create_application" /\ req[r].pc = "done" /\ req[r].code = 201
    /\ Exists(APPLICATION, req[r].id)
    /\ APPLICATION[req[r].id].status = "DRAFT"
    /\ APPLICATION[req[r].id].user_id = req[r].uid

\* C10: two 500 responses of the same handler have the same body.
C10_GenericInternalBody ==
  \A r1, r2 \in DOMAIN req :
    (/\ req[r1].pc = "done" /\ req[r2].pc = "done"
     /\ req[r1].code = 500 /\ req[r2].code = 500
     /\ req[r1].op = req[r2].op)
    => req[r1].detail = req[r2].detail

\* The caller's records in the collection the stats handler reads.
Mine(uid) == {d \in DOMAIN user_documents : user_documents[d].user_id = uid}

RECURSIVE SumSizes(_)
SumSizes(ids) ==
  IF ids = {} THEN 0
  ELSE LET d == CHOOSE x \in ids : TRUE
       IN user_documents[d].file_size + SumSizes(ids \ {d})

\* What get_document_stats is to answer today for the caller.
StatsAnswer(q) ==
  /\ q.pc = "done" /\ q.code = 200
  /\ q.resp[1].total_documents = Cardinality(Mine(q.uid))
  /\ q.resp[1].total_size_bytes = SumSizes(Mine(q.uid))
  /\ q.resp[1].recent_uploads =
       Cardinality({d \in Mine(q.uid) : user_documents[d].uploaded_at >= now - 7})

\* C11: on every day of the year and for every set of the caller's documents,
\* get_document_stats answers 200 (the record store having answered), with
\* recent_uploads the number of the caller's documents uploaded at or after
\* midnight of the day seven days before today, total_documents their number
\* and total_size_bytes the sum of their sizes.
C11_StatsEveryDate ==
  [][\A r \in DOMAIN req :
       LET q == req'[r]
       IN (Starts(r) /\ q.op = "get_document_stats" /\ ~q.fault) => StatsAnswer(q)]_vars

\* The same from the eighth of a month on, where day - 7 is a day of the month.
StatsFromTheEighth ==
  [][\A r \in DOMAIN req :
       LET q == req'[r]
       IN (/\ Starts(r) /\ q.op = "get_document_stats" /\ ~q.fault
           /\ Date(now).day > 7)
          => StatsAnswer(q)]_vars

\* Through the seventh of a month the handler answers 500.
StatsFirstWeek ==
  [][\A r \in DOMAIN req :
       LET q == req'[r]
       IN (Starts(r) /\ q.op = "get_document_stats" /\ Date(now).day <= 7)
          => (q.pc = "done" /\ q.code = 500)]_vars

\* The piece of s that starts at position a: up to the next comma or the end.
PieceEnd(s, a) ==
  LET stops == {i \in a..Len(s) : s[i] = ","} \cup {Len(s) + 1}
  IN (CHOOSE i \in stops : \A j \in stops : i <= j) - 1
\* Its positions that hold no whitespace.
Inked(s, a) == {i \in a..PieceEnd(s, a) : s[i] \notin Whitespace}
\* The pieces that are not empty after trimming, by their start.
KeptPieces(s) ==
  {a \in {1} \cup {i + 1 : i \in {j \in 1..Len(s) : s[j] = ","}} : Inked(s, a) # {}}
\* stored is the list of the trimmed non-empty pieces of s, in their order.
IsTagListOf(stored, s) ==
  /\ Len(stored) = Cardinality(KeptPieces(s))
  /\ \A a \in KeptPieces(s) :
       LET ink == Inked(s, a)
           first == CHOOSE i \in ink : \A j \in ink : i <= j
           last == CHOOSE i \in ink : \A j \in ink : i >= j
       IN stored[Cardinality({b \in KeptPieces(s) : b <= a})] = SubSeq(s, first, last)

\* C12: the stored tag list of an upload is the list of the comma-separated
\* pieces of the tags string, each trimmed, the empty ones dropped, in the
\* original order; "a, b ,c" is stored as a, b, c; an absent or empty string is
\* stored as the empty list; no stored tag is empty or starts or ends with
\* whitespace.
C12_TagsSplitTrimmed ==
  /\ [](\A d \in DOMAIN documents :
          \A i \in 1..Len(documents[d].tags) :
            LET tag == documents[d].tags[i]
            IN /\ tag # <<>>
               /\ tag[1] \notin Whitespace /\ tag[Len(tag)] \notin Whitespace
               /\ \A k \in 1..Len(tag) : tag[k] # ",")
  /\ [][\A r \in DOMAIN req :
          (Running(r, "upload_document", "set") /\ req'[r].code = 201)
          => LET given == req[r].local[2].tags
                 stored == documents'[req[r].id].tags
             IN /\ (given = Absent \/ given = Given(<<>>)) => stored = <<>>
                /\ given # Absent => IsTagListOf(stored, given[1])
                /\ given = Given(ExampleTags)
                     => stored = << <<"a">>, <<"b">>, <<"c">> >>]_vars

\* The upload with tags "a, b ,c" has answered 201 and its record holds the
\* three tags a, b, c.
C12_Witness ==
  \E r \in DOMAIN req :
    /\ req[r].op = "upload_document" /\ req[r].pc = "done" /\ req[r].code = 201
    /\ req[r].local[2].tags = Given(ExampleTags)
    /\ Exists(documents, req[r].id)
    /\ documents[req[r].id].tags = << <<"a">>, <<"b">>, <<"c">> >>

\* The caller's uploaded documents, and how many of them are newer than d, or
\* as new as d or newer.
Uploaded(uid) == {d \in DOMAIN documents : documents[d].user_id = uid}
Newer(uid, d) ==
  Cardinality({e \in Uploaded(uid) : documents[e].uploaded_at > documents[d].uploaded_at})
AsNew(uid, d) ==
  Cardinality({e \in Uploaded(uid) : documents[e].uploaded_at >= documents[d].uploaded_at})

\* C13: get_user_documents with a limit L in 1..100 and an offset O >= 0
\* answers 200 (the record store having answered) with documents of the caller
\* only, none twice, newest first, the i-th returned being the (O+i)-th of
\* that order, and min(L, n - O) of them (none when O >= n) for n documents of
\* the caller; with three documents of distinct upload times, limit 1 and
\* offset 1 return exactly the second newest.  A limit outside 1..100 or a
\* negative offset is not served.
C13_ListPage ==
  [][\A r \in DOMAIN req :
       LET q == req'[r]
           L == q.local[1]
           O == q.local[2]
           n == Cardinality(Uploaded(q.uid))
           page == q.resp
       IN (Starts(r) /\ q.op = "get_user_documents")
          => /\ q.pc = "done"
             /\ q.code = 200 <=> (L \in 1..100 /\ O >= 0 /\ ~q.fault)
             /\ q.code = 200 =>
                  /\ Len(page) = (IF O >= n THEN 0 ELSE IF L < n - O THEN L ELSE n - O)
                  /\ \A i \in 1..Len(page) :
                       /\ page[i].doc_id \in Uploaded(q.uid)
                       /\ page[i].user_id = q.uid
                       /\ page[i] = ResponseData(documents[page[i].doc_id])
                       /\ Newer(q.uid, page[i].doc_id) <= O + i - 1
                       /\ AsNew(q.uid, page[i].doc_id) >= O + i
                  /\ \A i, j \in 1..Len(page) :
                       /\ i # j => page[i].doc_id # page[j].doc_id
                       /\ i < j => page[i].created_at >= page[j].created_at
                  /\ (/\ L = 1 /\ O = 1 /\ n = 3
                      /\ \A d, e \in Uploaded(q.uid) :
                           d # e => documents[d].uploaded_at # documents[e].uploaded_at)
                     => /\ Len(page) = 1
                        /\ Newer(q.uid, page[1].doc_id) = 1
             /\ StoresUnchanged]_vars

\* The caller has three documents of three upload times, and a request with
\* limit 1 and offset 1 has returned the one that has exactly one newer.
C13_Witness ==
  \E r \in DOMAIN req :
    /\ req[r].op = "get_user_documents" /\ req[r].pc = "done" /\ req[r].code = 200
    /\ req[r].local = <<1, 1>>
    /\ Cardinality(Uploaded(req[r].uid)) = 3
    /\ \A d, e \in Uploaded(req[r].uid) :
         d # e => documents[d].uploaded_at # documents[e].uploaded_at
    /\ Len(req[r].resp) = 1
    /\ Newer(req[r].uid, req[r].resp[1].doc_id) = 1

\* C14: a document that upload_document stored and nothing deleted is found by
\* its owner's update_document and download_document (no 404, the record store
\* having answered), download_document returns the uploaded bytes with the
\* stored MIME type, and get_document_stats counts the caller's uploads.
C14_ReadBackFindsUpload ==
  [][\A r \in DOMAIN req :
       LET q == req'[r]
       IN /\ (/\ Starts(r)
               /\ q.op \in {"update_document", "download_document"}
               /\ Exists(documents, q.id)
               /\ documents[q.id].user_id = q.uid
               /\ ~q.fault)
             => ~(q.pc = "done" /\ q.code = 404)
          /\ (Running(r, "download_document", "download") /\ q.code = 200)
             => /\ Exists(documents, q.id)
                /\ q.resp[1].content = documents[q.id].file_size
                /\ q.resp[1].media_type = documents[q.id].mime_type
          /\ (Starts(r) /\ q.op = "get_document_stats" /\ q.code = 200)
             => q.resp[1].total_documents = Cardinality(Uploaded(q.uid))]_vars

\* No handler is between two of its remote calls.
Quiescent == \A r \in DOMAIN req : req[r].pc \in {"idle", "done"}

\* C15: whenever no request is in flight, every stored document record's
\* storage_path addresses a blob of the bucket, and every blob of the bucket is
\* addressed by the storage_path of exactly one stored record.
C15_RecordBlobConsistent ==
  Quiescent =>
    /\ \A d \in DOMAIN documents : Exists(bucket, documents[d].storage_path)
    /\ \A path \in DOMAIN bucket :
         Cardinality({d \in DOMAIN documents : documents[d].storage_path = path}) = 1

\* A record whose blob is gone: the delete removed the blob and then failed
\* to delete the record.
RecordWithoutBlob ==
  /\ Quiescent
  /\ \E d \in DOMAIN documents : ~Exists(bucket, documents[d].storage_path)

====
